---- MODULE Spec2Model ----
(***************************************************************************)
(* The task orchestrator of WinManus: class AgentLoop                      *)
(* (src/src/lib/agent/AgentLoop.ts).                                       *)
(*                                                                         *)
(* Granularity.  JavaScript runs one task of the event loop, with all the  *)
(* promise continuations it makes runnable, to completion.  The only       *)
(* places where a run of the agent loop gives the event loop back are the  *)
(* four timers that stand for the strategies (lines 174, 206, 242, 277).   *)
(* One action of this model is therefore one such task: a call from        *)
(* outside (onStateUpdate, an unsubscribe handle, startTask) or the        *)
(* continuation that runs when one of the four timers has fired, up to     *)
(* the next timer or to the end of startTask (its catch and finally        *)
(* included).                                                              *)
(*                                                                         *)
(* The strategies are stubs in the source: planTask always yields four     *)
(* steps, no stub fails and updatePlan always returns true.  The length    *)
(* of the plan, the outcome of a strategy call and the value returned by   *)
(* the update strategy are inputs of the model (PlanLens, Outcomes,        *)
(* ContinueValues); the stubs' behaviour is one of the choices.            *)
(*                                                                         *)
(* A subscriber callback is foreign code and may throw: updateState        *)
(* (lines 62-69) calls the callbacks in a plain for loop, so the input k   *)
(* of updateState is the position of the callback that throws (0: none).   *)
(*                                                                         *)
(* The module also holds the two other components of the program, both in  *)
(* src/src/app/api/ws/route.ts: the dictionary of AgentLoop objects with   *)
(* its POST and GET handlers (RegistrySpec) and the class WebSocketManager *)
(* (ChannelSpec).  The three components share no state, so each has its    *)
(* own next-state relation over the variables of the whole program.        *)
(***************************************************************************)
EXTENDS Integers, Sequences, FiniteSets, TLC

\* ------------------------------------------------------------ bounds
\* longest plan a decomposition strategy returns (the stub returns 4 steps)
MaxPlanLen == 4
\* most registrations held in updateCallbacks at a time
MaxSubs == 2

\* ------------------------------------------------------------ values
Null == "null"
Tasks == {"t1", "t2"}
Callbacks == {"f", "g"}
PlanLens == 0..MaxPlanLen
Outcomes == {"ok", "fail"}
ContinueValues == BOOLEAN
\* message of the error a failing strategy throws
StrategyError == "strategy failed"
\* message of the error a throwing subscriber callback throws
CallbackError == "callback threw"

\* route.ts, POST and GET (lines 294-353)
\* most POST calls suspended at await req.json() at a time
MaxRequests == 2
SessionIds == {"s1", "s2"}
\* a key every object literal inherits from Object.prototype: agentInstances
\* is a plain object, so agentInstances["constructor"] is a function
InheritedKeys == {"constructor"}
\* the sessionId of a request (Null: missing or empty)
RequestIds == SessionIds \cup InheritedKeys \cup {Null}
\* the result of a lookup that finds an inherited property
Inherited == 0 - 1

\* route.ts, class WebSocketManager (lines 100-276)
\* most WebSocket objects that can still fire an event at a time
MaxSockets == 3
\* most reconnect timers pending at a time
MaxTimers == 2
maxReconnectAttempts == 5
reconnectDelay == 1000
\* CloseEvent.code: 1000 normal closure, 1005 no status received (the peer
\* answered a close() that gave no code), 1006 abnormal closure
CloseCodes == {1000, 1005, 1006}

VARIABLES
  state,            \* AgentLoop.state
  taskRunning,      \* AgentLoop.taskRunning
  updateCallbacks,  \* AgentLoop.updateCallbacks
  handles,          \* callbacks for which an unsubscribe closure was returned
  runs,             \* the startTask calls suspended at a timer, with their locals
  lastOp,           \* the task of the event loop that ran last (history variable)
  pushed,           \* the states the last task assigned to this.state, in order
  delivered,        \* per position of updateCallbacks: the snapshots the last task passed to it
  agentInstances,   \* route.ts: the dictionary agentInstances (0: no own entry)
  agents,           \* route.ts: the AgentLoop objects constructed by POST, in order
  requests,         \* route.ts: the POST calls suspended at await req.json()
  lastReq,          \* the request handled last and its response (history variable)
  sockets,          \* readyState of each WebSocket object that can still fire an event ("none": free slot)
  socket,           \* WebSocketManager.socket: the slot of the socket held (0: null)
  reconnectAttempts,\* WebSocketManager.reconnectAttempts
  connState,        \* WebSocketManager.state
  timers,           \* number of setTimeout callbacks of handleClose that have not fired yet
  tornDown,         \* disconnect() was called and connect() was not called since (history variable)
  lastWs            \* the channel operation or event that ran last (history variable)

agentVars == <<state, taskRunning, updateCallbacks, handles, runs, lastOp, pushed, delivered>>
registryVars == <<agentInstances, agents, requests, lastReq>>
channelVars == <<sockets, socket, reconnectAttempts, connState, timers, tornDown, lastWs>>
vars == <<agentVars, registryVars, channelVars>>

\* ------------------------------------------------------------ helpers
RemoveAt(s, j) == [x \in 1..(Len(s) - 1) |-> IF x < j THEN s[x] ELSE s[x + 1]]
ReplaceAt(s, j, v) == [x \in 1..Len(s) |-> IF x = j THEN v ELSE s[x]]
Count(s, v) == Cardinality({j \in 1..Len(s) : s[j] = v})
NoDeliveries == [j \in 1..Len(updateCallbacks) |-> <<>>]

\* the constructor's state
InitialState ==
  [status |-> "idle", currentTask |-> Null, plan |-> <<>>, progress |-> 0,
   currentStep |-> Null, results |-> <<>>, error |-> Null, history |-> <<>>]

\* the four step texts of planTask; a longer plan of another strategy numbers its steps
PlanTexts == <<" collect", " analyse", " execute", " summarise">>
StepText(task, k) ==
  task \o (IF k <= Len(PlanTexts) THEN PlanTexts[k] ELSE " step " \o ToString(k))
Decompose(task, n) == [k \in 1..n |-> StepText(task, k)]

\* mutant of ExecProgress: rounds up where the source rounds down
ExecProgress_ceil(i, len) == (i * 50 + len - 1) \div len

\* Math.floor((i / len) * w); the quotient is exact in doubles for len < 10
ExecProgress(i, len) == (i * 50) \div len
ObserveProgress(i, len) == (i * 70) \div len
UpdateProgress(i, len) == (i * 90) \div len

\* ------------------------------------------------------------ updateState
\* The handler's view while it runs: m.state is this.state, m.pushed and
\* m.delivered grow with every updateState, m.threw says whether the last
\* updateState threw and m.thrown whether any did.
Begin ==
  [state |-> state, pushed |-> <<>>, delivered |-> NoDeliveries,
   threw |-> FALSE, thrown |-> FALSE]

\* the values k may take: no callback throws, or the k-th one does
Throwers == 0..Len(updateCallbacks)

\* updateState(updates): assign the merged state, then call the callbacks in
\* order with a copy of it; the callback at position k throws, which ends the
\* loop and leaves updateState
updateState(m, updates, k) ==
  LET st == [f \in DOMAIN m.state |-> IF f \in DOMAIN updates THEN updates[f] ELSE m.state[f]]
      last == IF k = 0 THEN Len(updateCallbacks) ELSE k
  IN [state |-> st,
      pushed |-> Append(m.pushed, st),
      delivered |-> [j \in 1..Len(updateCallbacks) |->
                       IF j <= last THEN Append(m.delivered[j], st) ELSE m.delivered[j]],
      threw |-> k # 0,
      thrown |-> m.thrown \/ k # 0]

\* mutant of withEntry: the spread of the old history is forgotten
withEntry_alone(history, action, result) == <<[action |-> action, result |-> result]>>

\* mutant of withEntry: the entry is put in front of the old history
withEntry_front(history, action, result) ==
  <<[action |-> action, result |-> result]>> \o history

\* [...this.state.history, {action, result, timestamp}]; the timestamp, which
\* nothing reads, is left out
withEntry(history, action, result) ==
  Append(history, [action |-> action, result |-> result])

\* mutant of ErrorUpdate: the catch blocks record the message but not the status
ErrorUpdate_noStatus(msg) == [error |-> msg]

\* the object startTask passes to updateState after taking the guard
ResetUpdate(task) ==
  [status |-> "planning", currentTask |-> task, plan |-> <<>>, progress |-> 0,
   currentStep |-> Null, results |-> <<>>, error |-> Null, history |-> <<>>]

\* the object every catch block passes to updateState
ErrorUpdate(msg) == [status |-> "error", error |-> msg]

\* ------------------------------------------------------------ the run
\* What a continuation leaves behind: the handler's view and the timer the
\* run now waits at ("done": startTask has returned or thrown).
Outcome(m, pc, i, step) == [m |-> m, pc |-> pc, i |-> i, step |-> step]
Ended(m) == Outcome(m, "done", 0, Null)

\* startTask's catch: runAgentLoop has thrown msg.  When this updateState
\* throws as well the error leaves startTask; either way the run is over.
startTaskCatch(m, msg, k) == Ended(updateState(m, ErrorUpdate(msg), k))

\* the end of runAgentLoop: the task is completed
completeTask(m, ka, kb) ==
  LET m1 == updateState(m, [status |-> "completed", progress |-> 100, currentStep |-> Null], ka)
  IN IF m1.threw THEN startTaskCatch(m1, CallbackError, kb) ELSE Ended(m1)

\* the head of the for loop at index i, up to the timer of executeStep
loopFrom(m, i, ka, kb) ==
  IF i < Len(m.state.plan)
  THEN LET step == m.state.plan[i + 1]
           m1 == updateState(m, [status |-> "executing", currentStep |-> step,
                                 progress |-> ExecProgress(i, Len(m.state.plan))], ka)
       IN IF m1.threw THEN startTaskCatch(m1, CallbackError, kb)
          ELSE Outcome(m1, "execute", i, step)
  ELSE completeTask(m, ka, kb)

\* planTask's catch, which does not rethrow, and runAgentLoop's check after planTask
planTaskCatch(m, msg, ka, kb, kc) ==
  LET m1 == updateState(m, ErrorUpdate(msg), ka)
  IN IF m1.threw THEN startTaskCatch(m1, CallbackError, kb)
     ELSE IF m1.state.status = "error" THEN Ended(m1)
     ELSE loopFrom(m1, 0, kb, kc)

\* planTask after its timer, then runAgentLoop up to the next timer; n is the
\* length of the plan the decomposition of r.task yields (planTask builds
\* the plan before its timer, but nothing reads it until the timer has fired)
planTaskDone(m, r, n, outcome, ks) ==
  IF outcome = "ok"
  THEN LET plan == Decompose(r.task, n)
           m1 == updateState(m, [plan |-> plan, progress |-> 10,
                                 history |-> withEntry(m.state.history, "planning", [plan |-> plan])],
                             ks[1])
       IN IF m1.threw THEN planTaskCatch(m1, CallbackError, ks[2], ks[3], 0)
          ELSE IF m1.state.status = "error" THEN Ended(m1)
          ELSE loopFrom(m1, 0, ks[2], ks[3])
  ELSE planTaskCatch(m, StrategyError, ks[1], ks[2], ks[3])

\* the catch of executeStep, observeResult and updatePlan: push the error
\* state and rethrow (the callback's error, if this updateState threw)
phaseCatch(m, msg, ka, kb) ==
  LET m1 == updateState(m, ErrorUpdate(msg), ka)
  IN startTaskCatch(m1, IF m1.threw THEN CallbackError ELSE msg, kb)

\* executeStep after its timer, then runAgentLoop up to the timer of observeResult
executeStepDone(m, r, outcome, ks) ==
  IF outcome = "ok"
  THEN LET result == [stepCompleted |-> r.step, output |-> r.step \o " result"]
           m1 == updateState(m, [results |-> Append(m.state.results, result),
                                 history |-> withEntry(m.state.history, "execution", result)],
                             ks[1])
       IN IF m1.threw THEN phaseCatch(m1, CallbackError, ks[2], ks[3])
          ELSE IF m1.state.status = "error" THEN Ended(m1)
          ELSE LET m2 == updateState(m1, [status |-> "observing",
                                          progress |-> ObserveProgress(r.i, Len(m1.state.plan))], ks[2])
               IN IF m2.threw THEN startTaskCatch(m2, CallbackError, ks[3])
                  ELSE Outcome(m2, "observe", r.i, r.step)
  ELSE phaseCatch(m, StrategyError, ks[1], ks[2])

\* observeResult after its timer, then runAgentLoop up to the timer of updatePlan
observeResultDone(m, r, outcome, ks) ==
  IF outcome = "ok"
  THEN LET result == [stepCompleted |-> r.step, output |-> r.step \o " result"]
           observation == [analysisOf |-> result, feedback |-> "ok"]
           m1 == updateState(m, [history |-> withEntry(m.state.history, "observation", observation)],
                             ks[1])
       IN IF m1.threw THEN phaseCatch(m1, CallbackError, ks[2], ks[3])
          ELSE LET m2 == updateState(m1, [status |-> "updating",
                                          progress |-> UpdateProgress(r.i, Len(m1.state.plan))], ks[2])
               IN IF m2.threw THEN startTaskCatch(m2, CallbackError, ks[3])
                  ELSE Outcome(m2, "update", r.i, r.step)
  ELSE phaseCatch(m, StrategyError, ks[1], ks[2])

\* mutant of leavesLoop: the break is never taken
leavesLoop_never(shouldContinue) == FALSE

\* if (!shouldContinue) break
leavesLoop(shouldContinue) == ~shouldContinue

\* updatePlan after its timer, then the break or the next turn of the loop
updatePlanDone(m, r, outcome, shouldContinue, ks) ==
  IF outcome = "ok"
  THEN LET updatedPlan == m.state.plan
           m1 == updateState(m, [plan |-> updatedPlan,
                                 history |-> withEntry(m.state.history, "plan-update",
                                                       [updatedPlan |-> updatedPlan])],
                             ks[1])
       IN IF m1.threw THEN phaseCatch(m1, CallbackError, ks[2], ks[3])
          ELSE IF leavesLoop(shouldContinue) THEN completeTask(m1, ks[2], ks[3])
          ELSE loopFrom(m1, r.i + 1, ks[2], ks[3])
  ELSE phaseCatch(m, StrategyError, ks[1], ks[2])

\* ------------------------------------------------------------ actions
\* op: the method or continuation; arg: its task or callback; outcome: of the
\* strategy call (of the guard, for startTask); cont: the update strategy's
\* answer; thrown: some callback threw; i: the loop index the continuation began at
LastOp(op, arg, outcome, cont, thrown, i) ==
  [op |-> op, arg |-> arg, outcome |-> outcome, cont |-> cont, thrown |-> thrown, i |-> i]

Init ==
  /\ state = InitialState
  /\ taskRunning = FALSE
  /\ updateCallbacks = <<>>
  /\ handles = {}
  /\ runs = <<>>
  /\ lastOp = LastOp("new", Null, Null, TRUE, FALSE, 0)
  /\ pushed = <<>>
  /\ delivered = <<>>
  /\ agentInstances = [sid \in SessionIds |-> 0]
  /\ agents = <<>>
  /\ requests = <<>>
  /\ lastReq = [method |-> "none", sessionId |-> Null, status |-> 0, agent |-> 0,
                created |-> FALSE, unseen |-> FALSE]
  /\ socket = 0
  /\ sockets = [j \in 1..MaxSockets |-> "none"]
  /\ reconnectAttempts = 0
  /\ connState = [isConnected |-> FALSE, error |-> Null]
  /\ timers = 0
  /\ tornDown = FALSE
  /\ lastWs = [op |-> "new", held |-> FALSE, code |-> 0, delay |-> 0, before |-> 0,
               created |-> FALSE, returned |-> FALSE, wrote |-> FALSE]

\* onStateUpdate(callback): push the callback, return the unsubscribe closure
Subscribe(cb) ==
  /\ Len(updateCallbacks) < MaxSubs
  /\ updateCallbacks' = Append(updateCallbacks, cb)
  /\ handles' = handles \cup {cb}
  /\ lastOp' = LastOp("onStateUpdate", cb, Null, TRUE, FALSE, 0)
  /\ pushed' = <<>>
  /\ delivered' = [j \in 1..Len(updateCallbacks') |-> <<>>]
  /\ UNCHANGED <<state, taskRunning, runs, registryVars, channelVars>>

\* the filter of the unsubscribe closure
withoutCallback(cbs, callback) == SelectSeq(cbs, LAMBDA c : c # callback)

\* a closure returned by onStateUpdate(cb) is called
Unsubscribe(cb) ==
  /\ cb \in handles
  /\ updateCallbacks' = withoutCallback(updateCallbacks, cb)
  /\ lastOp' = LastOp("unsubscribe", cb, Null, TRUE, FALSE, 0)
  /\ pushed' = <<>>
  /\ delivered' = [j \in 1..Len(updateCallbacks') |-> <<>>]
  /\ UNCHANGED <<state, taskRunning, handles, runs, registryVars, channelVars>>

\* mutant of alreadyRunning: startTask without its guard
alreadyRunning_unguarded == FALSE

\* if (this.taskRunning) return
alreadyRunning == taskRunning

\* startTask(task) up to the timer of planTask; k is the callback that
\* throws on the reset snapshot.  A reset push that throws leaves startTask before the try
\* block: the guard stays set and no run starts.
StartTask(task) ==
  IF alreadyRunning
  THEN /\ lastOp' = LastOp("startTask", task, "ignored", TRUE, FALSE, 0)
       /\ pushed' = <<>>
       /\ delivered' = NoDeliveries
       /\ UNCHANGED <<state, taskRunning, updateCallbacks, handles, runs, registryVars, channelVars>>
  ELSE \E k \in Throwers :
         LET m1 == updateState(Begin, ResetUpdate(task), k)
             run == [pc |-> "plan", task |-> task, i |-> 0, step |-> Null]
         IN /\ taskRunning' = TRUE
            /\ state' = m1.state
            /\ pushed' = m1.pushed
            /\ delivered' = m1.delivered
            /\ runs' = IF m1.threw THEN runs ELSE Append(runs, run)
            /\ lastOp' = LastOp("startTask", task, "accepted", TRUE, m1.thrown, 0)
            /\ UNCHANGED <<updateCallbacks, handles, registryVars, channelVars>>

\* mutant of guardAfter: the guard is dropped at the first timer already
guardAfter_early(over) == FALSE

\* mutant of guardAfter: startTask without its finally block
guardAfter_kept(over) == taskRunning

\* finally { this.taskRunning = false } once startTask is over
guardAfter(over) == IF over THEN FALSE ELSE taskRunning

\* the effect of the continuation of run j that ended as out says
Resume(j, out, op, outcome, cont) ==
  /\ state' = out.m.state
  /\ pushed' = out.m.pushed
  /\ delivered' = out.m.delivered
  /\ runs' = IF out.pc = "done"
             THEN RemoveAt(runs, j)
             ELSE ReplaceAt(runs, j, [runs[j] EXCEPT !.pc = out.pc, !.i = out.i, !.step = out.step])
  /\ taskRunning' = guardAfter(out.pc = "done")
  /\ lastOp' = LastOp(op, runs[j].task, outcome, cont, out.m.thrown, runs[j].i)
  /\ UNCHANGED <<updateCallbacks, handles, registryVars, channelVars>>

\* the timer of planTask fires
PlanTimer(j, n, outcome, ks) ==
  /\ runs[j].pc = "plan"
  /\ Resume(j, planTaskDone(Begin, runs[j], n, outcome, ks), "planTask", outcome, TRUE)

\* the timer of executeStep fires
ExecuteTimer(j, outcome, ks) ==
  /\ runs[j].pc = "execute"
  /\ Resume(j, executeStepDone(Begin, runs[j], outcome, ks), "executeStep", outcome, TRUE)

\* the timer of observeResult fires
ObserveTimer(j, outcome, ks) ==
  /\ runs[j].pc = "observe"
  /\ Resume(j, observeResultDone(Begin, runs[j], outcome, ks), "observeResult", outcome, TRUE)

\* the timer of updatePlan fires
UpdateTimer(j, outcome, cont, ks) ==
  /\ runs[j].pc = "update"
  /\ Resume(j, updatePlanDone(Begin, runs[j], outcome, cont, ks), "updatePlan", outcome, cont)

\* the callbacks that throw in one continuation, one entry per updateState
\* call it can make: three after a strategy call that returned, two (the
\* catch blocks) after one that failed
ThrowChoices(outcome) ==
  {ks \in [1..3 -> Throwers] : outcome = "fail" => ks[3] = 0}

Next ==
  \/ \E cb \in Callbacks : Subscribe(cb)
  \/ \E cb \in Callbacks : Unsubscribe(cb)
  \/ \E task \in Tasks : StartTask(task)
  \/ \E j \in 1..Len(runs), n \in PlanLens, o \in Outcomes :
       \E ks \in ThrowChoices(o) : PlanTimer(j, n, o, ks)
  \/ \E j \in 1..Len(runs), o \in Outcomes : \E ks \in ThrowChoices(o) : ExecuteTimer(j, o, ks)
  \/ \E j \in 1..Len(runs), o \in Outcomes : \E ks \in ThrowChoices(o) : ObserveTimer(j, o, ks)
  \/ \E j \in 1..Len(runs), o \in Outcomes, c \in ContinueValues :
       \E ks \in ThrowChoices(o) : UpdateTimer(j, o, c, ks)

Spec == Init /\ [][Next]_vars

\* ------------------------------------------------------------ session registry
\* route.ts, lines 294-353.  POST gives the event loop back once, at
\* await req.json(); what follows the await runs to the response in one task.
\* An AgentLoop object is kept here as the session id it was constructed for
\* and the task its startTask was called with last.
Response(method, sessionId, status, agent, created, unseen) ==
  [method |-> method, sessionId |-> sessionId, status |-> status, agent |-> agent,
   created |-> created, unseen |-> unseen]

\* mutant of lookup: the dictionary read finds nothing
lookup_missing(sessionId) == 0

\* agentInstances[sessionId]: the own entry, an inherited property, or undefined (0)
lookup(sessionId) ==
  IF sessionId \in InheritedKeys THEN Inherited ELSE agentInstances[sessionId]

\* POST is called: it runs up to await req.json().  unseen records whether
\* the dictionary has no entry for the id at that moment.
PostArrives(sessionId, task) ==
  /\ Len(requests) < MaxRequests
  /\ requests' = Append(requests, [sessionId |-> sessionId, task |-> task,
                                   unseen |-> sessionId \in SessionIds /\ agentInstances[sessionId] = 0])
  /\ UNCHANGED <<agentInstances, agents, lastReq, agentVars, channelVars>>

\* the continuation of POST after await req.json(); parsed = FALSE: the
\* body is not JSON and the await throws
PostContinues(j, parsed) ==
  LET r == requests[j]
      found == lookup(r.sessionId)
      new == Len(agents) + 1
  IN /\ requests' = RemoveAt(requests, j)
     /\ IF ~parsed
        THEN /\ lastReq' = Response("POST", Null, 500, 0, FALSE, FALSE)
             /\ UNCHANGED <<agentInstances, agents>>
        ELSE IF r.sessionId = Null \/ r.task = Null
        THEN /\ lastReq' = Response("POST", r.sessionId, 400, 0, FALSE, r.unseen)
             /\ UNCHANGED <<agentInstances, agents>>
        ELSE IF found = 0
        THEN /\ agents' = Append(agents, [sessionId |-> r.sessionId, task |-> r.task])
             /\ agentInstances' = [agentInstances EXCEPT ![r.sessionId] = new]
             /\ lastReq' = Response("POST", r.sessionId, 200, new, TRUE, r.unseen)
        ELSE IF found = Inherited
        THEN \* agent.startTask is not a function: the catch block answers
             /\ lastReq' = Response("POST", r.sessionId, 500, 0, FALSE, r.unseen)
             /\ UNCHANGED <<agentInstances, agents>>
        ELSE /\ agents' = [agents EXCEPT ![found].task = r.task]
             /\ lastReq' = Response("POST", r.sessionId, 200, found, FALSE, r.unseen)
             /\ UNCHANGED agentInstances
     /\ UNCHANGED <<agentVars, channelVars>>

\* GET: no await before the response
Get(sessionId) ==
  /\ lastReq' = IF sessionId = Null THEN Response("GET", sessionId, 400, 0, FALSE, FALSE)
                ELSE IF lookup(sessionId) = 0 THEN Response("GET", sessionId, 404, 0, FALSE, FALSE)
                ELSE IF lookup(sessionId) = Inherited THEN Response("GET", sessionId, 500, 0, FALSE, FALSE)
                ELSE Response("GET", sessionId, 200, lookup(sessionId), FALSE, FALSE)
  /\ UNCHANGED <<agentInstances, agents, requests, agentVars, channelVars>>

RegistryNext ==
  \/ \E sessionId \in RequestIds, task \in Tasks \cup {Null} : PostArrives(sessionId, task)
  \/ \E j \in 1..Len(requests), parsed \in BOOLEAN : PostContinues(j, parsed)
  \/ \E sessionId \in RequestIds : Get(sessionId)

RegistrySpec == Init /\ [][RegistryNext]_vars

\* ------------------------------------------------------------ notification channel
\* route.ts, class WebSocketManager (lines 100-276).  One action is one call
\* of a public method, one firing of a reconnect timer, or one event of a
\* WebSocket object.  The handlers are bound to the socket in connect()
\* (lines 135-138) and never unbound, so a socket the manager holds no more
\* still calls them; a socket that is closed and not held can fire nothing
\* more and leaves the model.  The listeners are not modelled: those of
\* page.tsx (lines 39-64) only store what they are given.
WsOp(op, held, code, delay, before, created, returned, wrote) ==
  [op |-> op, held |-> held, code |-> code, delay |-> delay, before |-> before,
   created |-> created, returned |-> returned, wrote |-> wrote]

RECURSIVE Pow(_, _)
Pow(b, e) == IF e = 0 THEN 1 ELSE b * Pow(b, e - 1)

\* mutant of Delay: the delay doubles
Delay_doubling(attempt) == reconnectDelay * 1000 * Pow(2, attempt - 1)

\* reconnectDelay * Math.pow(1.5, attempt - 1), in microseconds: the doubles
\* are exact (1.5^k = 3^k / 2^k with k <= 4), and so is the integer quotient
Delay(attempt) == (reconnectDelay * 1000 * Pow(3, attempt - 1)) \div Pow(2, attempt - 1)

Pending == {"connecting", "open", "closing"}
FreeSlots(socks) == {j \in 1..MaxSockets : socks[j] = "none"}
FirstFree(socks) == CHOOSE j \in FreeSlots(socks) : \A x \in FreeSlots(socks) : j <= x

\* the sockets once the manager lets go of the one it holds
Released(socks) ==
  [j \in 1..MaxSockets |-> IF j = socket /\ socks[j] = "closed" THEN "none" ELSE socks[j]]

\* mutant of alreadyConnected: connect() without its guard
alreadyConnected_unguarded == FALSE

\* this.socket && (readyState === OPEN || readyState === CONNECTING)
alreadyConnected == socket # 0 /\ sockets[socket] \in {"open", "connecting"}

\* this.connect(), called by op; throws: new WebSocket(url) throws
connect(op, throws) ==
  IF alreadyConnected
  THEN /\ lastWs' = WsOp(op, socket # 0, 0, 0, reconnectAttempts, FALSE, FALSE, FALSE)
       /\ UNCHANGED <<sockets, socket, connState>>
  ELSE IF throws
  THEN /\ connState' = [isConnected |-> FALSE, error |-> "constructor threw"]
       /\ lastWs' = WsOp(op, socket # 0, 0, 0, reconnectAttempts, FALSE, FALSE, FALSE)
       /\ UNCHANGED <<sockets, socket>>
  ELSE /\ FreeSlots(Released(sockets)) # {}
       /\ socket' = FirstFree(Released(sockets))
       /\ sockets' = [Released(sockets) EXCEPT ![socket'] = "connecting"]
       /\ lastWs' = WsOp(op, socket # 0, 0, 0, reconnectAttempts, TRUE, FALSE, FALSE)
       /\ UNCHANGED connState

\* connect() is called from outside
Connect(throws) ==
  /\ connect("connect", throws)
  /\ tornDown' = FALSE
  /\ UNCHANGED <<reconnectAttempts, timers, agentVars, registryVars>>

\* a timer of handleClose fires: () => this.connect()
TimerFires(throws) ==
  /\ timers > 0
  /\ timers' = timers - 1
  /\ connect("timer", throws)
  /\ UNCHANGED <<reconnectAttempts, tornDown, agentVars, registryVars>>

\* socket.close(): an open or opening socket starts closing
afterClose(readyState) == IF readyState = "closed" THEN "none" ELSE "closing"

\* disconnect()
Disconnect ==
  /\ tornDown' = TRUE
  /\ lastWs' = WsOp("disconnect", socket # 0, 0, 0, reconnectAttempts, FALSE, FALSE, FALSE)
  /\ IF socket # 0
     THEN /\ sockets' = [sockets EXCEPT ![socket] = afterClose(sockets[socket])]
          /\ socket' = 0
          /\ reconnectAttempts' = 0
          /\ connState' = [isConnected |-> FALSE, error |-> Null]
     ELSE UNCHANGED <<sockets, socket, reconnectAttempts, connState>>
  /\ UNCHANGED <<timers, agentVars, registryVars>>

\* mutant of notOpen: sendMessage without its guard
notOpen_unguarded == FALSE

\* !this.socket || this.socket.readyState !== WebSocket.OPEN
notOpen == socket = 0 \/ sockets[socket] # "open"

\* this.socket.send(JSON.stringify(...)) inside the try block: "threw" when
\* the data cannot be serialized, when there is no socket or when the socket
\* is still connecting; a closing or closed socket discards the data
\* silently; an open one writes it
transportSend(serializable) ==
  IF socket = 0 \/ ~serializable THEN "threw"
  ELSE IF sockets[socket] = "connecting" THEN "threw"
  ELSE IF sockets[socket] = "open" THEN "wrote"
  ELSE "discarded"

\* sendMessage(type, data)
SendMessage(serializable) ==
  LET sent == IF notOpen THEN "refused" ELSE transportSend(serializable)
  IN /\ lastWs' = WsOp("sendMessage", socket # 0, 0, 0, reconnectAttempts, FALSE,
                       sent \in {"wrote", "discarded"}, sent = "wrote")
     /\ UNCHANGED <<sockets, socket, reconnectAttempts, connState, timers, tornDown,
                    agentVars, registryVars>>

\* the readyState of socket j after its close event
Closed(socks, j) == [socks EXCEPT ![j] = IF j = socket THEN "closed" ELSE "none"]

\* mutant of attemptsAfterOpen: handleOpen leaves the counter alone
attemptsAfterOpen_kept == reconnectAttempts

\* this.reconnectAttempts = 0 in handleOpen
attemptsAfterOpen == 0

\* onopen of socket j: handleOpen
Open(j) ==
  /\ sockets[j] = "connecting"
  /\ sockets' = [sockets EXCEPT ![j] = "open"]
  /\ reconnectAttempts' = attemptsAfterOpen
  /\ connState' = [isConnected |-> TRUE, error |-> Null]
  /\ lastWs' = WsOp("open", j = socket, 0, 0, reconnectAttempts, FALSE, FALSE, FALSE)
  /\ UNCHANGED <<socket, timers, tornDown, agentVars, registryVars>>

\* the peer starts the closing handshake of socket j: no handler runs
PeerCloses(j) ==
  /\ sockets[j] = "open"
  /\ sockets' = [sockets EXCEPT ![j] = "closing"]
  /\ lastWs' = WsOp("closing", j = socket, 0, 0, reconnectAttempts, FALSE, FALSE, FALSE)
  /\ UNCHANGED <<socket, reconnectAttempts, connState, timers, tornDown, agentVars, registryVars>>

\* the codes a close event can carry: a connection that never opened fails with 1006
ClosesWith(readyState) == IF readyState = "connecting" THEN {1006} ELSE CloseCodes

\* event.code !== 1000 && this.reconnectAttempts < this.maxReconnectAttempts
schedulesReconnect(code) == code # 1000 /\ reconnectAttempts < maxReconnectAttempts

\* onclose of socket j: handleClose
Close(j, code) ==
  /\ sockets[j] \in Pending
  /\ code \in ClosesWith(sockets[j])
  /\ sockets' = Closed(sockets, j)
  /\ connState' = [isConnected |-> FALSE,
                   error |-> IF code # 1000 THEN "Connection closed" ELSE Null]
  /\ IF schedulesReconnect(code)
     THEN /\ timers < MaxTimers
          /\ reconnectAttempts' = reconnectAttempts + 1
          /\ timers' = timers + 1
          /\ lastWs' = WsOp("close", j = socket, code, Delay(reconnectAttempts'), reconnectAttempts,
                            FALSE, FALSE, FALSE)
     ELSE /\ lastWs' = WsOp("close", j = socket, code, 0, reconnectAttempts, FALSE, FALSE, FALSE)
          /\ UNCHANGED <<reconnectAttempts, timers>>
  /\ UNCHANGED <<socket, tornDown, agentVars, registryVars>>

\* onerror of socket j: handleError
Error(j) ==
  /\ sockets[j] \in Pending
  /\ connState' = [isConnected |-> FALSE, error |-> "Connection error"]
  /\ lastWs' = WsOp("error", j = socket, 0, 0, reconnectAttempts, FALSE, FALSE, FALSE)
  /\ UNCHANGED <<sockets, socket, reconnectAttempts, timers, tornDown, agentVars, registryVars>>

ChannelNext ==
  \/ \E throws \in BOOLEAN : Connect(throws)
  \/ \E throws \in BOOLEAN : TimerFires(throws)
  \/ Disconnect
  \/ \E serializable \in BOOLEAN : SendMessage(serializable)
  \/ \E j \in 1..MaxSockets : Open(j)
  \/ \E j \in 1..MaxSockets : PeerCloses(j)
  \/ \E j \in 1..MaxSockets, code \in CloseCodes : Close(j, code)
  \/ \E j \in 1..MaxSockets : Error(j)

ChannelSpec == Init /\ [][ChannelNext]_vars

\* ------------------------------------------------------------ properties
Terminal == {"completed", "error"}

\* C1: a startTask call made while the guard is set changes no field of the
\* state, starts nothing and pushes no snapshot to any subscriber
C1_IgnoredStartChangesNothing ==
  [][(lastOp'.op = "startTask" /\ taskRunning) =>
       /\ state' = state
       /\ runs' = runs
       /\ taskRunning'
       /\ pushed' = <<>>
       /\ \A j \in DOMAIN delivered' : delivered'[j] = <<>>]_vars

\* a startTask for another task was ignored in the middle of a run that has subscribers
C1_Witness ==
  /\ lastOp.op = "startTask"
  /\ lastOp.outcome = "ignored"
  /\ lastOp.arg # state.currentTask
  /\ state.status = "observing"
  /\ updateCallbacks # <<>>

\* C2: at most one run of the phase sequence is in progress at any time, and
\* a run starts only when no run is in progress, the guard is free and the
\* previous run, if any, has reached completed or error
C2_SingleFlight ==
  /\ [](Len(runs) <= 1 /\ (runs # <<>> => taskRunning))
  /\ [][Len(runs') > Len(runs) =>
          /\ runs = <<>>
          /\ ~taskRunning
          /\ state.status \in Terminal \cup {"idle"}]_vars

\* a startTask for t1 was ignored while the run of t2 waits for its execute strategy
C2_Witness ==
  /\ Len(runs) = 1
  /\ runs[1].task = "t2"
  /\ runs[1].pc = "execute"
  /\ lastOp.op = "startTask"
  /\ lastOp.outcome = "ignored"
  /\ lastOp.arg = "t1"

NonDecreasing(snapshots) ==
  \A a \in 1..(Len(snapshots) - 1) : snapshots[a].progress <= snapshots[a + 1].progress

\* C3: within one run the progress values a subscriber observes never
\* decrease: in every step other than an accepted startTask, the state before
\* the step followed by the snapshots the step delivers to a subscriber is
\* non-decreasing in progress
C3_ProgressNonDecreasing ==
  [][~(lastOp'.op = "startTask" /\ lastOp'.outcome = "accepted") =>
       \A j \in DOMAIN delivered' : NonDecreasing(<<state>> \o delivered'[j])]_vars

\* C4: when a strategy fails, the next snapshot has status error and the
\* failure message, every snapshot of that step has status error and an
\* error (no later phase runs), the run is over with status error and the
\* guard free, and a startTask that comes next is accepted and resets the
\* state to planning
C4_FailureEndsRun ==
  /\ [][lastOp'.outcome = "fail" =>
          /\ pushed' # <<>>
          /\ pushed'[1].status = "error"
          /\ pushed'[1].error = StrategyError
          /\ \A a \in 1..Len(pushed') :
               /\ pushed'[a].status = "error"
               /\ pushed'[a].error # Null
               /\ pushed'[a].history = state.history
               /\ pushed'[a].results = state.results
          /\ \A j \in DOMAIN delivered' :
               \A a \in 1..Len(delivered'[j]) : delivered'[j][a].status = "error"
          /\ delivered' # <<>> => delivered'[1][1] = pushed'[1]
          /\ state'.status = "error"
          /\ runs' = <<>>
          /\ ~taskRunning']_vars
  /\ [][(lastOp.outcome = "fail" /\ lastOp'.op = "startTask") =>
          /\ lastOp'.outcome = "accepted"
          /\ state'.status = "planning"
          /\ state'.error = Null]_vars

\* the observe strategy failed in a run with two subscribers
C4_Witness ==
  /\ lastOp.op = "observeResult"
  /\ lastOp.outcome = "fail"
  /\ ~lastOp.thrown
  /\ Len(updateCallbacks) = 2
  /\ state.status = "error"
  /\ state.error = StrategyError

\* C5: status error implies that error is present and that the guard is
\* released with no run left
C5_ErrorImpliesReleased ==
  state.status = "error" =>
    /\ state.error # Null
    /\ ~taskRunning
    /\ runs = <<>>

\* a run ended in error because a callback threw while executeStep pushed its result
C5_Witness ==
  /\ state.status = "error"
  /\ state.error = CallbackError
  /\ lastOp.op = "executeStep"
  /\ lastOp.outcome = "ok"
  /\ Len(state.results) = 2

\* the loop ran through the whole plan: the last continuation was planTask
\* with an empty plan, or updatePlan answering continue = true at the last index
RanWholePlan ==
  /\ state.status = "completed"
  /\ \/ lastOp.op = "planTask"
     \/ lastOp.op = "updatePlan" /\ lastOp.cont

\* C6: a run of an N-step plan that completes with no failure and no early
\* stop leaves 1 + 3N history entries (planning, then execution, observation,
\* plan-update per step) and N results
C6_HistoryLength ==
  RanWholePlan =>
    LET N == Len(state.plan)
    IN /\ Len(state.history) = 1 + 3 * N
       /\ Len(state.results) = N
       /\ state.history[1].action = "planning"
       /\ \A k \in 0..(N - 1) :
            /\ state.history[2 + 3 * k].action = "execution"
            /\ state.history[3 + 3 * k].action = "observation"
            /\ state.history[4 + 3 * k].action = "plan-update"
            /\ state.results[k + 1].stepCompleted = state.plan[k + 1]

\* a run of a three-step plan has completed
C6_Witness ==
  /\ RanWholePlan
  /\ Len(state.plan) = 3
  /\ lastOp.op = "updatePlan"

\* the index in its plan of the step a snapshot names as currentStep
StepIndex(s) == CHOOSE i \in 0..(Len(s.plan) - 1) : s.plan[i + 1] = s.currentStep

\* C7: for a 4-step plan every snapshot in the execute, observe and update
\* phase of step i carries progress floor(i/4*50), floor(i/4*70) and
\* floor(i/4*90): 0,12,25,37; 0,17,35,52; 0,22,45,67; and the run that had no
\* failure and no early stop ends with a snapshot of status completed and
\* progress 100
C7_ProgressTable ==
  /\ \A a \in 1..Len(pushed) :
       LET s == pushed[a]
       IN (Len(s.plan) = 4 /\ s.status \in {"executing", "observing", "updating"}) =>
            /\ s.status = "executing" => s.progress = <<0, 12, 25, 37>>[StepIndex(s) + 1]
            /\ s.status = "observing" => s.progress = <<0, 17, 35, 52>>[StepIndex(s) + 1]
            /\ s.status = "updating" => s.progress = <<0, 22, 45, 67>>[StepIndex(s) + 1]
  /\ (lastOp.op = "updatePlan" /\ lastOp.outcome = "ok" /\ lastOp.cont /\ ~lastOp.thrown
        /\ Len(state.plan) = 4 /\ lastOp.i = 3) =>
       /\ pushed[Len(pushed)].status = "completed"
       /\ pushed[Len(pushed)].progress = 100
       /\ pushed[Len(pushed)] = state

\* a run of a 4-step plan with a subscriber completed: its last continuation
\* pushed the plan-update entry of step 3 at progress 67, then completed at 100
C7_Witness ==
  /\ lastOp.op = "updatePlan"
  /\ lastOp.i = 3
  /\ ~lastOp.thrown
  /\ Len(state.plan) = 4
  /\ state.status = "completed"
  /\ state.progress = 100
  /\ pushed[1].status = "updating"
  /\ pushed[1].progress = 67
  /\ updateCallbacks # <<>>
  /\ delivered[1] = pushed

C9_RemovesOneRegistration ==
  [][(lastOp'.op = "unsubscribe" /\ Count(updateCallbacks, lastOp'.arg) > 1) =>
       /\ Count(updateCallbacks', lastOp'.arg) = Count(updateCallbacks, lastOp'.arg) - 1
       /\ \A c \in Callbacks \ {lastOp'.arg} :
            Count(updateCallbacks', c) = Count(updateCallbacks, c)]_vars

\* C10: every state a task of the event loop assigns is delivered, in order
\* and before the next assignment, to every registered subscriber: each
\* subscriber's snapshots are the assigned states
C10_EverySnapshotDelivered ==
  \A j \in DOMAIN delivered : delivered[j] = pushed

\* C11: the registry never holds or constructs two orchestrators for one
\* session id: every AgentLoop object was constructed for a different id, the
\* entry of an id is the object constructed for it (so different ids have
\* different objects), a task submission that is accepted is handed the entry
\* of its id, and an entry, once made, is never replaced - also when the
\* submissions for an id not seen before overlap at await req.json().
C11_OneOrchestratorPerSession ==
  /\ [](/\ \A a, b \in 1..Len(agents) : agents[a].sessionId = agents[b].sessionId => a = b
        /\ \A sid \in SessionIds :
             agentInstances[sid] # 0 =>
               /\ agentInstances[sid] \in 1..Len(agents)
               /\ agents[agentInstances[sid]].sessionId = sid
        /\ (lastReq.method = "POST" /\ lastReq.status = 200) =>
             /\ lastReq.sessionId \in SessionIds
             /\ lastReq.agent = agentInstances[lastReq.sessionId])
  /\ [][\A sid \in SessionIds :
          agentInstances[sid] # 0 => agentInstances'[sid] = agentInstances[sid]]_vars

\* two submissions for one id arrived while the id had no entry; the one that
\* continued second was handed the object the first had constructed, and
\* the other id has an object of its own
C11_Witness ==
  /\ lastReq.method = "POST"
  /\ lastReq.status = 200
  /\ lastReq.unseen
  /\ ~lastReq.created
  /\ Len(agents) = 2
  /\ agentInstances["s1"] # agentInstances["s2"]

\* the delays of the reconnect attempts 1..5 in microseconds: 1000, 1500,
\* 2250, 3375 and 5062.5 milliseconds
BackoffTable == <<1000000, 1500000, 2250000, 3375000, 5062500>>

\* C12: the attempt counter never exceeds 5; an abnormal close (code other
\* than 1000) met with the counter below 5 increments the counter and
\* schedules one reconnect whose delay is the table's entry for the new
\* counter (1000 * 1.5^(attempt - 1) ms), so the closes that follow counter 0
\* with no open in between wait 1000, 1500, 2250, 3375, 5062.5 ms; an
\* abnormal close met with the counter at 5 schedules nothing.
C12_BackoffSchedule ==
  /\ [](reconnectAttempts \in 0..5)
  /\ [][(lastWs'.op = "close" /\ lastWs'.code # 1000) =>
          IF reconnectAttempts < 5
          THEN /\ reconnectAttempts' = reconnectAttempts + 1
               /\ timers' = timers + 1
               /\ lastWs'.delay = BackoffTable[reconnectAttempts']
          ELSE /\ reconnectAttempts' = reconnectAttempts
               /\ timers' = timers
               /\ lastWs'.delay = 0]_vars

\* the sixth abnormal close in a row: the counter stood at 5 and nothing was scheduled
C12_Witness ==
  /\ lastWs.op = "close"
  /\ lastWs.code # 1000
  /\ lastWs.before = 5
  /\ lastWs.delay = 0
  /\ reconnectAttempts = 5

\* C13: an open event sets the attempt counter to 0 whatever it was; the
\* counter then stays 0 until the next close event, and an abnormal close
\* met with the counter at 0 schedules its reconnect after 1000 ms.
C13_OpenResetsBackoff ==
  /\ [][lastWs'.op = "open" => reconnectAttempts' = 0]_vars
  /\ [][(reconnectAttempts = 0 /\ lastWs'.op # "close") => reconnectAttempts' = 0]_vars
  /\ [][(reconnectAttempts = 0 /\ lastWs'.op = "close" /\ lastWs'.code # 1000) =>
          /\ lastWs'.delay = 1000000
          /\ timers' = timers + 1]_vars

\* a connection opened after three failed attempts
C13_Witness ==
  /\ lastWs.op = "open"
  /\ lastWs.before = 3
  /\ reconnectAttempts = 0
  /\ connState.isConnected

\* C14: from disconnect() until connect() is called from outside, no timer
\* makes a new connection and no close event schedules a reconnect.
C14_NoReconnectAfterDisconnect ==
  [][tornDown =>
       /\ ~(lastWs'.op = "timer" /\ lastWs'.created)
       /\ ~(lastWs'.op = "close" /\ lastWs'.delay # 0)]_vars

\* C15: right after any call of disconnect() the attempt counter is 0, no
\* reconnect timer is pending, no socket is held and isConnected is false.
C15_DisconnectIsFullTeardown ==
  [][lastWs'.op = "disconnect" =>
       /\ reconnectAttempts' = 0
       /\ timers' = 0
       /\ socket' = 0
       /\ ~connState'.isConnected]_vars

\* C16: at most one WebSocket object is open or opening at any time, and a
\* connect() - from outside or from a timer - that finds the held socket
\* open or opening changes no field of the manager and makes no socket.
C16_SingleConnection ==
  /\ [](Cardinality({j \in 1..MaxSockets : sockets[j] \in {"open", "connecting"}}) <= 1)
  /\ [][(/\ lastWs'.op \in {"connect", "timer"}
          /\ socket # 0
          /\ sockets[socket] \in {"open", "connecting"}) =>
          /\ UNCHANGED <<sockets, socket, reconnectAttempts, connState>>
          /\ ~lastWs'.created
          /\ lastWs'.op = "connect" => timers' = timers]_vars

\* a reconnect timer fired while the held connection was open, next to an
\* older socket that is still closing: no second connection was made
C16_Witness ==
  /\ lastWs.op = "timer"
  /\ ~lastWs.created
  /\ socket # 0
  /\ sockets[socket] = "open"
  /\ \E j \in 1..MaxSockets : j # socket /\ sockets[j] = "closing"

\* C17: sendMessage on a manager that holds no open socket returns false,
\* writes nothing and changes neither the connection state nor the attempt
\* counter (nor any other field); it returns true only if the held socket
\* is open and the data was written.
C17_SendNeedsOpenSocket ==
  [][lastWs'.op = "sendMessage" =>
       /\ (socket = 0 \/ sockets[socket] # "open") =>
            /\ ~lastWs'.returned
            /\ ~lastWs'.wrote
            /\ UNCHANGED <<sockets, socket, reconnectAttempts, connState, timers>>
       /\ lastWs'.returned =>
            /\ socket # 0
            /\ sockets[socket] = "open"
            /\ lastWs'.wrote]_vars

\* a send was refused on a held socket that is closing
C17_Witness ==
  /\ lastWs.op = "sendMessage"
  /\ ~lastWs.returned
  /\ socket # 0
  /\ sockets[socket] = "closing"

\* the statuses of a run that has not ended
Running == {"planning", "executing", "observing", "updating"}

\* the edges C18 lists
StatusEdges ==
  {<<"idle", "planning">>,
   <<"planning", "executing">>, <<"planning", "completed">>, <<"planning", "error">>,
   <<"executing", "observing">>, <<"executing", "error">>,
   <<"observing", "updating">>, <<"observing", "error">>,
   <<"updating", "executing">>, <<"updating", "completed">>, <<"updating", "error">>,
   <<"completed", "planning">>, <<"error", "planning">>}

\* the values of this.state a task of the event loop goes through, its first one included
Visited == <<state>> \o pushed'

\* C18: every change of status, from one assignment of this.state to the
\* next, goes along one of the listed edges, and an edge into planning is
\* taken only by a startTask that was accepted (so completed and error are
\* left by nothing else, and idle is never entered).
C18_StatusEdges ==
  [][\A x \in 1..(Len(Visited) - 1) :
       Visited[x].status # Visited[x + 1].status =>
         /\ <<Visited[x].status, Visited[x + 1].status>> \in StatusEdges
         /\ Visited[x + 1].status = "planning" =>
              (lastOp'.op = "startTask" /\ lastOp'.outcome = "accepted")]_vars

\* the action of the x-th history entry of a run
PhaseOrder(x) ==
  IF x = 1 THEN "planning" ELSE <<"execution", "observation", "plan-update">>[((x - 2) % 3) + 1]

\* C19: from one assignment of this.state to the next the history stays as
\* it is or gains exactly one entry at its end, unless the assignment is the
\* reset of an accepted startTask; the entries come in the order planning,
\* then execution, observation, plan-update per step; and a continuation
\* whose strategy call returned appends exactly one entry, one whose
\* strategy call failed appends none.
C19_HistoryAppendOnly ==
  /\ [](\A x \in 1..Len(state.history) : state.history[x].action = PhaseOrder(x))
  /\ [][\A x \in 1..(Len(Visited) - 1) :
          \/ lastOp'.op = "startTask" /\ x = 1
          \/ Visited[x + 1].history = Visited[x].history
          \/ /\ Len(Visited[x + 1].history) = Len(Visited[x].history) + 1
             /\ SubSeq(Visited[x + 1].history, 1, Len(Visited[x].history)) = Visited[x].history]_vars
  /\ [][lastOp'.op \in {"planTask", "executeStep", "observeResult", "updatePlan"} =>
          Len(state'.history) = Len(state.history) + (IF lastOp'.outcome = "ok" THEN 1 ELSE 0)]_vars

\* the plan-update entry of the second step has just been appended to the
\* six entries before it
C19_Witness ==
  /\ lastOp.op = "updatePlan"
  /\ lastOp.outcome = "ok"
  /\ lastOp.i = 1
  /\ Len(state.history) = 7
  /\ state.history[7].action = "plan-update"

\* C20: a run that has not ended has a continuation waiting for its timer,
\* and the guard is held only while such a continuation exists: no state has
\* a status of planning, executing, observing or updating, or the guard
\* set, with nothing left to run.
C20_NoStuckRun ==
  (state.status \in Running \/ taskRunning) => runs # <<>>

\* C21: a task of the event loop in which a subscriber callback threw -
\* startTask with its reset push, or a continuation of the run - does not
\* end with the guard set and no continuation left to release it.
C21_GuardReleasedOnThrow ==
  [][lastOp'.thrown => (taskRunning' => runs' # <<>>)]_vars

\* C22: isConnected is true only while the socket the manager holds is
\* open, and an open, close or error event of a socket the manager holds no
\* more changes neither the connection state nor the attempt counter.
C22_StateFollowsHeldSocket ==
  /\ [](connState.isConnected => (socket # 0 /\ sockets[socket] = "open"))
  /\ [][(lastWs'.op \in {"open", "close", "error"} /\ ~lastWs'.held) =>
          UNCHANGED <<connState, reconnectAttempts>>]_vars

\* C23: at most one reconnect timer is pending in every state.
C23_SingleReconnectTimer ==
  timers <= 1

====
